---------------------------- MODULE Spec2Model ----------------------------
(***************************************************************************)
(* Model of jira_xml_folder_to_jsonl.py: the text sanitizer (strip_html),  *)
(* the tree navigator over parsed XML elements, the field extractors, the  *)
(* record builder (item_to_issue_dict, build_search_text), the weight      *)
(* estimator (node_weight) and the deduplicating loop of main().           *)
(*                                                                         *)
(* Representation.                                                         *)
(*  - A Python str is a sequence of characters; a character is a one-      *)
(*    character TLA+ string ("a", "<", "\n"); a non-ASCII code point is    *)
(*    written "U+XXXX".                                                    *)
(*  - A Python value (None, str, list, dict) is a record [t, v] tagged by  *)
(*    its type; a dict keeps its entries in insertion order.               *)
(*  - An xml.etree Element is [tag, text, attrib, kids]; a tag is the      *)
(*    sequence of its lexical pieces, "{uri}key" being                     *)
(*    <<"{", "uri", "}", "key">> and "jira:key" being <<"jira", ":",       *)
(*    "key">>.                                                             *)
(*                                                                         *)
(* Domain.  Text is drawn from Chars below.  Chars has no "!", "?", "#",   *)
(* "=", quote, "s" or "S": markup declarations, processing instructions,   *)
(* numeric character references, attribute values and the CDATA elements   *)
(* "script"/"style" of html.parser cannot be spelled, and the sanitizer is *)
(* modelled exactly for every string over Chars.  The driver is run with   *)
(* --include-raw-item-xml off (ET.tostring is not modelled).               *)
(***************************************************************************)
EXTENDS Integers, Sequences, FiniteSets, TLC

VARIABLES
    pc,             \* control position of the specification being run
    folder_ok,      \* main: input_folder.exists() and input_folder.is_dir()
    files,          \* main: the input documents [name, doc], in processing order
    fail_fast,      \* main: args.fail_fast
    opts,           \* main: Options(include_customfields, include_raw_item_xml)
    idx,            \* main: number of documents the for loop has taken
    pending,        \* main: items of the current document not yet visited
    issues_by_key,  \* main: the aggregate, key -> retained issue
    errors,         \* main: the per-document failure list
    ordered,        \* main: the finalized output sequence
    rc,             \* main: the value returned, -1 while running
    offered,        \* history: every issue offered to the aggregate, in order
    scanned,        \* history: index of every document the loop has started
    started,        \* history: the aggregate as it was when each document was started
    s_in,           \* sanitizer input
    s_out,          \* strip_html(s_in)
    s_out2,         \* strip_html(strip_html(s_in))
    item,           \* an <item> element handed to the record builder
    issue_out,      \* item_to_issue_dict(item, ...)
    cf_out,         \* extract_customfields(item)
    obj,            \* a Python value whose weight is estimated
    edit,           \* history: the last content-adding edit made to obj
    rec,            \* a record handed to build_search_text
    rec_out         \* build_search_text(rec, flag) and the lines it is made of

driverVars == <<folder_ok, files, fail_fast, opts, idx, pending, issues_by_key, errors,
                ordered, rc, offered, scanned, started>>
stripVars == <<s_in, s_out, s_out2>>
itemVars == <<item, issue_out, cf_out>>
weightVars == <<obj, edit>>
textVars == <<rec, rec_out>>
vars == <<pc, driverVars, stripVars, itemVars, weightVars, textVars>>

(***************************************************************************)
(* Bounds of the model.                                                    *)
(***************************************************************************)
MaxTextLen == 4
MaxKeyLen == 5
MaxKids == 2
MaxFields == 2
MaxEdits == 2
MaxFieldEdits == 2

(***************************************************************************)
(* Characters.                                                             *)
(***************************************************************************)
UpperLetters == {"H", "J", "O", "P", "R", "W"}
LowerLetters == {"a", "b", "d", "e", "l", "o", "r", "t"}
Letters == UpperLetters \cup LowerLetters
Digits == {"0", "1", "2"}
Whitespace == {" ", "\n"}
Chars == Letters \cup Digits \cup Whitespace \cup {"<", ">", "/", "&", ";", "-"}

IsSpace(c) == c \in Whitespace

SetMin(S) == CHOOSE x \in S : \A y \in S : x <= y
SetMax(S) == CHOOSE x \in S : \A y \in S : x >= y

\* str.find(c, from): the first position >= from holding c, 0 when there is none.
Find(s, c, from) ==
    LET hits == {p \in from..Len(s) : s[p] = c}
    IN  IF hits = {} THEN 0 ELSE SetMin(hits)

\* str.strip()
Strip(s) ==
    LET keep == {p \in 1..Len(s) : ~IsSpace(s[p])}
    IN  IF keep = {} THEN <<>> ELSE SubSeq(s, SetMin(keep), SetMax(keep))

\* re.sub(r"\s+", " ", s)
RECURSIVE CollapseFrom(_, _)
CollapseFrom(s, p) ==
    IF p > Len(s) THEN <<>>
    ELSE IF IsSpace(s[p])
         THEN IF p > 1 /\ IsSpace(s[p - 1]) THEN CollapseFrom(s, p + 1)
              ELSE <<" ">> \o CollapseFrom(s, p + 1)
         ELSE <<s[p]>> \o CollapseFrom(s, p + 1)
CollapseSpaces(s) == CollapseFrom(s, 1)

\* sep.join(parts)
RECURSIVE Join(_, _)
Join(sep, parts) ==
    IF parts = <<>> THEN <<>>
    ELSE IF Len(parts) = 1 THEN parts[1]
         ELSE parts[1] \o sep \o Join(sep, Tail(parts))

(***************************************************************************)
(* html.unescape on a data chunk.  html5 holds every named reference of    *)
(* html.entities.html5 that can be spelled with Letters and Digits.        *)
(***************************************************************************)
html5 ==
       (<<"H", "a", "t", ";">> :> <<"^">>) @@
       (<<"O", "r", ";">> :> <<"U+2A54">>) @@
       (<<"P", "r", ";">> :> <<"U+2ABB">>) @@
       (<<"R", "a", "r", "r", ";">> :> <<"U+21A0">>) @@
       (<<"R", "a", "r", "r", "t", "l", ";">> :> <<"U+2916">>) @@
       (<<"R", "e", ";">> :> <<"U+211C">>) @@
       (<<"b", "e", "t", "a", ";">> :> <<"U+03B2">>) @@
       (<<"b", "o", "t", ";">> :> <<"U+22A5">>) @@
       (<<"d", "H", "a", "r", ";">> :> <<"U+2965">>) @@
       (<<"d", "a", "r", "r", ";">> :> <<"U+2193">>) @@
       (<<"d", "d", ";">> :> <<"U+2146">>) @@
       (<<"d", "d", "a", "r", "r", ";">> :> <<"U+21CA">>) @@
       (<<"d", "e", "l", "t", "a", ";">> :> <<"U+03B4">>) @@
       (<<"d", "o", "l", "l", "a", "r", ";">> :> <<"$">>) @@
       (<<"d", "o", "t", ";">> :> <<"U+02D9">>) @@
       (<<"d", "t", "d", "o", "t", ";">> :> <<"U+22F1">>) @@
       (<<"e", "d", "o", "t", ";">> :> <<"U+0117">>) @@
       (<<"e", "e", ";">> :> <<"U+2147">>) @@
       (<<"e", "l", ";">> :> <<"U+2A99">>) @@
       (<<"e", "l", "l", ";">> :> <<"U+2113">>) @@
       (<<"e", "r", "a", "r", "r", ";">> :> <<"U+2971">>) @@
       (<<"e", "t", "a", ";">> :> <<"U+03B7">>) @@
       (<<"l", "H", "a", "r", ";">> :> <<"U+2962">>) @@
       (<<"l", "a", "r", "r", ";">> :> <<"U+2190">>) @@
       (<<"l", "a", "r", "r", "b", ";">> :> <<"U+21E4">>) @@
       (<<"l", "a", "r", "r", "t", "l", ";">> :> <<"U+21A2">>) @@
       (<<"l", "a", "t", ";">> :> <<"U+2AAB">>) @@
       (<<"l", "a", "t", "e", ";">> :> <<"U+2AAD">>) @@
       (<<"l", "b", "a", "r", "r", ";">> :> <<"U+290C">>) @@
       (<<"l", "e", ";">> :> <<"U+2264">>) @@
       (<<"l", "l", ";">> :> <<"U+226A">>) @@
       (<<"l", "l", "a", "r", "r", ";">> :> <<"U+21C7">>) @@
       (<<"l", "o", "a", "r", "r", ";">> :> <<"U+21FD">>) @@
       (<<"l", "r", "a", "r", "r", ";">> :> <<"U+21C6">>) @@
       (<<"l", "t">> :> <<"<">>) @@
       (<<"l", "t", ";">> :> <<"<">>) @@
       (<<"l", "t", "d", "o", "t", ";">> :> <<"U+22D6">>) @@
       (<<"l", "t", "l", "a", "r", "r", ";">> :> <<"U+2976">>) @@
       (<<"l", "t", "r", "P", "a", "r", ";">> :> <<"U+2996">>) @@
       (<<"o", "d", "o", "t", ";">> :> <<"U+2299">>) @@
       (<<"o", "l", "a", "r", "r", ";">> :> <<"U+21BA">>) @@
       (<<"o", "l", "t", ";">> :> <<"U+29C0">>) @@
       (<<"o", "r", ";">> :> <<"U+2228">>) @@
       (<<"o", "r", "a", "r", "r", ";">> :> <<"U+21BB">>) @@
       (<<"o", "r", "d", ";">> :> <<"U+2A5D">>) @@
       (<<"o", "r", "d", "e", "r", ";">> :> <<"U+2134">>) @@
       (<<"o", "r", "o", "r", ";">> :> <<"U+2A56">>) @@
       (<<"r", "H", "a", "r", ";">> :> <<"U+2964">>) @@
       (<<"r", "a", "r", "r", ";">> :> <<"U+2192">>) @@
       (<<"r", "a", "r", "r", "b", ";">> :> <<"U+21E5">>) @@
       (<<"r", "a", "r", "r", "t", "l", ";">> :> <<"U+21A3">>) @@
       (<<"r", "b", "a", "r", "r", ";">> :> <<"U+290D">>) @@
       (<<"r", "e", "a", "l", ";">> :> <<"U+211C">>) @@
       (<<"r", "l", "a", "r", "r", ";">> :> <<"U+21C4">>) @@
       (<<"r", "o", "a", "r", "r", ";">> :> <<"U+21FE">>) @@
       (<<"r", "r", "a", "r", "r", ";">> :> <<"U+21C9">>) @@
       (<<"t", "d", "o", "t", ";">> :> <<"U+20DB">>) @@
       (<<"t", "o", "e", "a", ";">> :> <<"U+2928">>) @@
       (<<"t", "r", "a", "d", "e", ";">> :> <<"U+2122">>)

\* A character the reference-name pattern [^\t\n\f <&#;] accepts.
IsRefNameChar(c) == c \notin {"\t", "\n", "\f", " ", "<", "&", "#", ";"}

\* The end (exclusive) of the name run {1,32} that starts at position p.
RECURSIVE RefNameEnd(_, _, _)
RefNameEnd(s, p, taken) ==
    IF p <= Len(s) /\ taken < 32 /\ IsRefNameChar(s[p])
    THEN RefNameEnd(s, p + 1, taken + 1)
    ELSE p

\* html._replace_charref for a named reference nm (the name and its optional ";").
replace_charref(nm) ==
    IF nm \in DOMAIN html5 THEN html5[nm]
    ELSE LET xs == {x \in 2..(Len(nm) - 1) : SubSeq(nm, 1, x) \in DOMAIN html5}
         IN  IF xs # {}
             THEN html5[SubSeq(nm, 1, SetMax(xs))] \o SubSeq(nm, SetMax(xs) + 1, Len(nm))
             ELSE <<"&">> \o nm

RECURSIVE UnescapeFrom(_, _)
UnescapeFrom(s, p) ==
    IF p > Len(s) THEN <<>>
    ELSE IF s[p] # "&" THEN <<s[p]>> \o UnescapeFrom(s, p + 1)
    ELSE LET e == RefNameEnd(s, p + 1, 0)
             q == IF e <= Len(s) /\ s[e] = ";" THEN e + 1 ELSE e
         IN  IF e = p + 1 THEN <<"&">> \o UnescapeFrom(s, p + 1)
             ELSE replace_charref(SubSeq(s, p + 1, q - 1)) \o UnescapeFrom(s, q)
unescape(s) == UnescapeFrom(s, 1)

(***************************************************************************)
(* _HTMLStripper: HTMLParser.feed(s) runs goahead(end = 0) once; close()   *)
(* is never called, so whatever goahead leaves buffered is dropped.        *)
(***************************************************************************)
\* _HTMLStripper.handle_data
handle_data(parts, data) ==
    IF data # <<>> /\ Strip(data) # <<>> THEN Append(parts, Strip(data)) ELSE parts

\* goahead's test before handing over a tail without "<": an "&" among the
\* last 34 characters that no whitespace or ";" follows may be a reference
\* cut in half, and the parser waits for more text.
AmpPending(rawdata, i) ==
    LET n == Len(rawdata)
        from == IF i > n - 33 THEN i ELSE n - 33
        amps == {p \in from..n : rawdata[p] = "&"}
    IN  /\ amps # {}
        /\ \A p \in SetMax(amps)..n : ~(IsSpace(rawdata[p]) \/ rawdata[p] = ";")

\* parse_starttag / parse_endtag at the "<" in position i: the position after
\* the tag, 0 for the parser's -1 (no ">" yet: incomplete).  Over Chars the
\* tolerant tag patterns consume everything up to the first ">".
parse_tag(rawdata, i) ==
    LET gt == Find(rawdata, ">", i + 1)
    IN  IF gt = 0 THEN 0 ELSE gt + 1

RECURSIVE goahead(_, _, _)
goahead(rawdata, i, parts) ==
    LET n == Len(rawdata)
        lt == Find(rawdata, "<", i)
    IN  IF i > n THEN parts
        ELSE IF lt = 0 /\ AmpPending(rawdata, i) THEN parts
        ELSE LET j == IF lt = 0 THEN n + 1 ELSE lt
                 parts1 == IF i < j
                           THEN handle_data(parts, unescape(SubSeq(rawdata, i, j - 1)))
                           ELSE parts
             IN  IF j = n + 1 THEN parts1
                 ELSE IF j + 1 <= n /\ (rawdata[j + 1] \in Letters \/ rawdata[j + 1] = "/")
                      THEN LET k == parse_tag(rawdata, j)
                           IN  IF k = 0 THEN parts1 ELSE goahead(rawdata, k, parts1)
                      ELSE IF j + 1 <= n
                           THEN goahead(rawdata, j + 1, handle_data(parts1, <<"<">>))
                           ELSE parts1

strip_html(s) ==
    IF s = <<>> THEN <<>>
    ELSE Strip(CollapseSpaces(Join(<<" ">>, goahead(s, 1, <<>>))))

(***************************************************************************)
(* Python values.                                                          *)
(***************************************************************************)
PyNone == [t |-> "none", v |-> <<>>]
PyStr(s) == [t |-> "str", v |-> s]
PyList(xs) == [t |-> "list", v |-> xs]
PyDict(entries) == [t |-> "dict", v |-> entries]
Entry(k, val) == [k |-> k, v |-> val]

\* bool(x)
Truthy(x) == x.t # "none" /\ x.v # <<>>

\* d.get(k)
DictGet(d, k) ==
    LET hits == {p \in 1..Len(d.v) : d.v[p].k = k}
    IN  IF hits = {} THEN PyNone ELSE d.v[SetMin(hits)].v

\* d[k] = val: an existing key keeps its place, a new one goes last.
DictSet(d, k, val) ==
    LET hits == {p \in 1..Len(d.v) : d.v[p].k = k}
    IN  IF hits = {} THEN PyDict(Append(d.v, Entry(k, val)))
        ELSE PyDict([d.v EXCEPT ![SetMin(hits)] = Entry(k, val)])

(***************************************************************************)
(* Weight estimator.                                                       *)
(***************************************************************************)
\* A faulty variant of node_weight: the per-element term of a sequence is subtracted.
RECURSIVE node_weightSignSlip(_)
RECURSIVE SumWeightsSignSlip(_)
SumWeightsSignSlip(xs) ==
    IF xs = <<>> THEN 0 ELSE node_weightSignSlip(Head(xs)) + SumWeightsSignSlip(Tail(xs))

node_weightSignSlip(x) ==
    IF x.t = "dict"
    THEN SumWeightsSignSlip([p \in 1..Len(x.v) |-> x.v[p].v]) + Len(x.v) * 10
    ELSE IF x.t = "list" THEN SumWeightsSignSlip(x.v) - Len(x.v) * 5
    ELSE IF x.t = "str" THEN Len(x.v)
    ELSE 1

RECURSIVE node_weight(_)
RECURSIVE SumWeights(_)
SumWeights(xs) ==
    IF xs = <<>> THEN 0 ELSE node_weight(Head(xs)) + SumWeights(Tail(xs))

node_weight(x) ==
    IF x.t = "dict"
    THEN SumWeights([p \in 1..Len(x.v) |-> x.v[p].v]) + Len(x.v) * 10
    ELSE IF x.t = "list" THEN SumWeights(x.v) + Len(x.v) * 5
    ELSE IF x.t = "str" THEN Len(x.v)
    ELSE 1

(***************************************************************************)
(* Tree navigator.                                                         *)
(***************************************************************************)
El(tag, text, attrib, kids) == [tag |-> tag, text |-> text, attrib |-> attrib, kids |-> kids]
Leaf(name, text) == El(<<name>>, text, <<>>, <<>>)
Node(name, kids) == El(<<name>>, <<>>, <<>>, kids)

\* str.split(sep, 1)[1] on a tag
AfterFirst(tag, sep) == SubSeq(tag, Find(tag, sep, 1) + 1, Len(tag))

local_name(tag) ==
    LET t1 == IF Find(tag, "}", 1) # 0 THEN AfterFirst(tag, "}") ELSE tag
    IN  IF Find(t1, ":", 1) # 0 THEN AfterFirst(t1, ":") ELSE t1

\* str.lower() on the pieces of a tag, for the spellings the documents use.
TagLower(tag) ==
    [p \in 1..Len(tag) |->
        IF tag[p] \in {"RSS", "Rss"} THEN "rss"
        ELSE IF tag[p] \in {"CHANNEL", "Channel"} THEN "channel"
        ELSE tag[p]]

\* KEY_RE = ^[A-Z][A-Z0-9]+-\d+$ ; over Chars [0-9] and \d are the same class.
RECURSIVE RunEnd(_, _, _)
RunEnd(s, p, class) ==
    IF p <= Len(s) /\ s[p] \in class THEN RunEnd(s, p + 1, class) ELSE p

\* A faulty variant of KEY_RE_match: [A-Z0-9]* in place of [A-Z0-9]+.
KEY_RE_matchStar(s) ==
    /\ Len(s) >= 1
    /\ s[1] \in UpperLetters
    /\ LET a == RunEnd(s, 2, UpperLetters \cup Digits)
       IN  /\ a <= Len(s)
           /\ s[a] = "-"
           /\ LET b == RunEnd(s, a + 1, Digits)
              IN  /\ b > a + 1
                  /\ \/ b = Len(s) + 1
                     \/ b = Len(s) /\ s[b] = "\n"

KEY_RE_match(s) ==
    /\ Len(s) >= 1
    /\ s[1] \in UpperLetters
    /\ LET a == RunEnd(s, 2, UpperLetters \cup Digits)
       IN  /\ a > 2
           /\ a <= Len(s)
           /\ s[a] = "-"
           /\ LET b == RunEnd(s, a + 1, Digits)
              IN  /\ b > a + 1
                  /\ \/ b = Len(s) + 1
                     \/ b = Len(s) /\ s[b] = "\n"

is_key(s) == s # <<>> /\ KEY_RE_match(Strip(s))

\* An optional element (Element | None) is a sequence of at most one element;
\* el.text None and "" are both <<>> (the code never tells them apart).
text_of(el) == IF el = <<>> THEN <<>> ELSE Strip(el[1].text)

find_child(parent, name) ==
    LET hits == {p \in 1..Len(parent.kids) : local_name(parent.kids[p].tag) = <<name>>}
    IN  IF hits = {} THEN <<>> ELSE <<parent.kids[SetMin(hits)]>>

find_text(parent, name) == text_of(find_child(parent, name))

\* Element.iter(): the element and its descendants, in document order.
RECURSIVE Iter(_)
RECURSIVE IterAll(_)
IterAll(els) == IF els = <<>> THEN <<>> ELSE Iter(Head(els)) \o IterAll(Tail(els))
Iter(el) == <<el>> \o IterAll(el.kids)

\* Element.get(name) or ""
AttrGet(el, name) ==
    LET hits == {p \in 1..Len(el.attrib) : el.attrib[p].k = name}
    IN  IF hits = {} THEN <<>> ELSE el.attrib[SetMin(hits)].v

(***************************************************************************)
(* Field extractors.                                                       *)
(***************************************************************************)
\* The texts one <customfieldvalue> node v contributes.
RECURSIVE NonBlankTexts(_)
NonBlankTexts(els) ==
    IF els = <<>> THEN <<>>
    ELSE (IF Strip(Head(els).text) # <<>> THEN <<Strip(Head(els).text)>> ELSE <<>>)
         \o NonBlankTexts(Tail(els))

ValueTexts(v) ==
    IF Strip(v.text) # <<>> THEN <<Strip(v.text)>> ELSE NonBlankTexts(Iter(v))

\* The values every customfieldvalue under one <customfieldvalues> node c gives.
RECURSIVE ValuesOfNodes(_)
ValuesOfNodes(els) ==
    IF els = <<>> THEN <<>>
    ELSE (IF local_name(Head(els).tag) = <<"customfieldvalue">>
          THEN ValueTexts(Head(els)) ELSE <<>>)
         \o ValuesOfNodes(Tail(els))

\* The loop over the children of one <customfield>: [name, values].
RECURSIVE ScanCustomfield(_, _, _)
ScanCustomfield(kids, name, values) ==
    IF kids = <<>> THEN [name |-> name, values |-> values]
    ELSE LET c == Head(kids)
             ln == local_name(c.tag)
         IN  IF ln = <<"customfieldname">>
             THEN ScanCustomfield(Tail(kids), text_of(<<c>>), values)
             ELSE IF ln = <<"customfieldvalues">>
                  THEN ScanCustomfield(Tail(kids), name, values \o ValuesOfNodes(Iter(c)))
                  ELSE ScanCustomfield(Tail(kids), name, values)

\* The dedup loop: whitespace-normalized, non-empty, first occurrence only.
RECURSIVE CleanVals(_, _)
CleanVals(values, clean) ==
    IF values = <<>> THEN clean
    ELSE LET val == Strip(CollapseSpaces(Head(values)))
         IN  IF val # <<>> /\ \A p \in 1..Len(clean) : clean[p] # val
             THEN CleanVals(Tail(values), Append(clean, val))
             ELSE CleanVals(Tail(values), clean)

StrList(xs) == PyList([p \in 1..Len(xs) |-> PyStr(xs[p])])

RECURSIVE CustomfieldsLoop(_, _)
CustomfieldsLoop(cfs, out) ==
    IF cfs = <<>> THEN out
    ELSE LET cf == Head(cfs)
             got == ScanCustomfield(cf.kids, <<>>, <<>>)
         IN  IF local_name(cf.tag) # <<"customfield">> THEN CustomfieldsLoop(Tail(cfs), out)
             ELSE IF got.name # <<>>
                  THEN CustomfieldsLoop(Tail(cfs),
                           DictSet(out, got.name, StrList(CleanVals(got.values, <<>>))))
                  ELSE CustomfieldsLoop(Tail(cfs), out)

extract_customfields(it) ==
    LET customfields == find_child(it, "customfields")
    IN  IF customfields = <<>> THEN PyDict(<<>>)
        ELSE CustomfieldsLoop(customfields[1].kids, PyDict(<<>>))

RECURSIVE CommentParts(_)
CommentParts(els) ==
    IF els = <<>> THEN <<>>
    ELSE (IF local_name(Head(els).tag) = <<"comment">>
             /\ strip_html(text_of(<<Head(els)>>)) # <<>>
          THEN <<strip_html(text_of(<<Head(els)>>))>> ELSE <<>>)
         \o CommentParts(Tail(els))

extract_comments_text(it) ==
    LET comments == find_child(it, "comments")
    IN  IF comments = <<>> THEN <<>>
        ELSE Strip(Join(<<"\n">>, CommentParts(Iter(comments[1]))))

extract_parent_key(it) ==
    LET parent == find_child(it, "parent")
        pk == IF parent = <<>> THEN <<>>
              ELSE IF find_text(parent[1], "key") # <<>> THEN find_text(parent[1], "key")
              ELSE text_of(parent)
    IN  IF parent # <<>> /\ is_key(pk) THEN Strip(pk) ELSE <<>>

RECURSIVE SubtaskKeys(_)
SubtaskKeys(els) ==
    IF els = <<>> THEN <<>>
    ELSE (IF local_name(Head(els).tag) = <<"subtask">> /\ is_key(find_text(Head(els), "key"))
          THEN <<Strip(find_text(Head(els), "key"))>> ELSE <<>>)
         \o SubtaskKeys(Tail(els))

extract_subtasks(it) ==
    LET subtasks_el == find_child(it, "subtasks")
    IN  IF subtasks_el = <<>> THEN <<>> ELSE SubtaskKeys(subtasks_el[1].kids)

extract_project(it) ==
    LET proj == find_child(it, "project")
    IN  IF proj = <<>> THEN PyDict(<<>>)
        ELSE PyDict(<< Entry("id", PyStr(Strip(AttrGet(proj[1], "id")))),
                       Entry("key", PyStr(Strip(AttrGet(proj[1], "key")))),
                       Entry("name", PyStr(text_of(proj))) >>)

(***************************************************************************)
(* Ordinal string order (Python compares str by code point).               *)
(***************************************************************************)
Ord(c) ==
    CASE c = "\n" -> 10  [] c = " " -> 32  [] c = "&" -> 38  [] c = "-" -> 45
      [] c = "/" -> 47   [] c = "0" -> 48  [] c = "1" -> 49  [] c = "2" -> 50
      [] c = ";" -> 59   [] c = "<" -> 60  [] c = ">" -> 62
      [] c = "H" -> 72   [] c = "J" -> 74  [] c = "O" -> 79  [] c = "P" -> 80
      [] c = "R" -> 82   [] c = "W" -> 87
      [] c = "a" -> 97   [] c = "b" -> 98  [] c = "d" -> 100 [] c = "e" -> 101
      [] c = "h" -> 104  [] c = "j" -> 106 [] c = "l" -> 108 [] c = "o" -> 111
      [] c = "p" -> 112  [] c = "r" -> 114 [] c = "t" -> 116 [] c = "w" -> 119

\* str.lower()
LowerChar(c) ==
    CASE c = "H" -> "h" [] c = "J" -> "j" [] c = "O" -> "o" [] c = "P" -> "p"
      [] c = "R" -> "r" [] c = "W" -> "w" [] OTHER -> c
LowerStr(s) == [p \in 1..Len(s) |-> LowerChar(s[p])]

\* a < b for two str
StrLess(a, b) ==
    LET diff == {p \in 1..Len(a) : p > Len(b) \/ a[p] # b[p]}
    IN  IF diff = {} THEN Len(a) < Len(b)
        ELSE SetMin(diff) <= Len(b) /\ Ord(a[SetMin(diff)]) < Ord(b[SetMin(diff)])

\* sorted(xs, key=...): xs is a sequence of [key, x]; stable, ascending by key.
RECURSIVE InsertByKey(_, _)
InsertByKey(e, sorted) ==
    IF sorted = <<>> THEN <<e>>
    ELSE IF StrLess(e.key, Head(sorted).key) THEN <<e>> \o sorted
         ELSE <<Head(sorted)>> \o InsertByKey(e, Tail(sorted))

RECURSIVE SortByKey(_, _)
SortByKey(xs, sorted) ==
    IF xs = <<>> THEN sorted ELSE SortByKey(Tail(xs), InsertByKey(Head(xs), sorted))

\* A faulty variant of SortedStrs: shorter keys first, then by code point.
RECURSIVE SortedShortFirst(_)
SortedShortFirst(S) ==
    IF S = {} THEN <<>>
    ELSE LET m == CHOOSE x \in S : \A y \in S :
                      Len(x) < Len(y) \/ (Len(x) = Len(y) /\ ~StrLess(y, x))
         IN  <<m>> \o SortedShortFirst(S \ {m})

\* sorted(S) for a set of str
RECURSIVE SortedStrs(_)
SortedStrs(S) ==
    IF S = {} THEN <<>>
    ELSE LET m == CHOOSE x \in S : \A y \in S : ~StrLess(y, x)
         IN  <<m>> \o SortedStrs(S \ {m})

(***************************************************************************)
(* Record builder: the canonical search text.                              *)
(***************************************************************************)
L_KEY == <<"K", "E", "Y">>
L_TYPE == <<"T", "Y", "P", "E">>
L_SUMMARY == <<"S", "U", "M", "M", "A", "R", "Y">>
L_STATUS == <<"S", "T", "A", "T", "U", "S">>
L_PRIORITY == <<"P", "R", "I", "O", "R", "I", "T", "Y">>
L_ASSIGNEE == <<"A", "S", "S", "I", "G", "N", "E", "E">>
L_REPORTER == <<"R", "E", "P", "O", "R", "T", "E", "R">>
L_CREATED == <<"C", "R", "E", "A", "T", "E", "D">>
L_UPDATED == <<"U", "P", "D", "A", "T", "E", "D">>
L_PROJECT == <<"P", "R", "O", "J", "E", "C", "T">>
L_PROJECT_NAME == <<"P", "R", "O", "J", "E", "C", "T", "_", "N", "A", "M", "E">>
L_PARENT == <<"P", "A", "R", "E", "N", "T">>
L_SUBTASKS == <<"S", "U", "B", "T", "A", "S", "K", "S">>
H_CUSTOMFIELDS == <<"C", "U", "S", "T", "O", "M", "F", "I", "E", "L", "D", "S", ":">>
H_DESCRIPTION == <<"D", "E", "S", "C", "R", "I", "P", "T", "I", "O", "N", ":">>
H_COMMENTS == <<"C", "O", "M", "M", "E", "N", "T", "S", ":">>

\* A faulty variant of add: the whitespace-only test is missing.
addKeepsBlank(lines, k, v) ==
    IF v.t = "none" THEN lines
    ELSE Append(lines, k \o <<":", " ">> \o v.v)

\* The nested add(k, v): v is None or a str.
add(lines, k, v) ==
    IF v.t = "none" THEN lines
    ELSE IF v.t = "str" /\ Strip(v.v) = <<>> THEN lines
    ELSE Append(lines, k \o <<":", " ">> \o v.v)

\* x or {}
OrEmptyDict(x) == IF Truthy(x) THEN x ELSE PyDict(<<>>)

\* The texts of a list of str
Texts(xs) == [p \in 1..Len(xs) |-> xs[p].v]

\* lines after the add calls for the scalar fields, project, parent, subtasks
scalar_lines(issue) ==
    LET l1 == add(<<>>, L_KEY, DictGet(issue, "key"))
        l2 == add(l1, L_TYPE, DictGet(issue, "type"))
        l3 == add(l2, L_SUMMARY, DictGet(issue, "summary"))
        l4 == add(l3, L_STATUS, DictGet(issue, "status"))
        l5 == add(l4, L_PRIORITY, DictGet(issue, "priority"))
        l6 == add(l5, L_ASSIGNEE, DictGet(issue, "assignee"))
        l7 == add(l6, L_REPORTER, DictGet(issue, "reporter"))
        l8 == add(l7, L_CREATED, DictGet(issue, "created"))
        l9 == add(l8, L_UPDATED, DictGet(issue, "updated"))
        proj == OrEmptyDict(DictGet(issue, "project"))
        l10 == IF proj.t = "dict" /\ Truthy(DictGet(proj, "key"))
               THEN add(l9, L_PROJECT, DictGet(proj, "key")) ELSE l9
        l11 == IF proj.t = "dict" /\ Truthy(DictGet(proj, "name"))
               THEN add(l10, L_PROJECT_NAME, DictGet(proj, "name")) ELSE l10
        l12 == IF Truthy(DictGet(issue, "parent"))
               THEN add(l11, L_PARENT, DictGet(issue, "parent")) ELSE l11
    IN  IF Truthy(DictGet(issue, "subtasks"))
        THEN add(l12, L_SUBTASKS,
                 PyStr(Join(<<",", " ">>, Texts(DictGet(issue, "subtasks").v))))
        ELSE l12

\* One bulleted line per name, or none when the name has no values.
RECURSIVE CustomfieldBullets(_, _)
CustomfieldBullets(names, cfs) ==
    IF names = <<>> THEN <<>>
    ELSE LET name == Head(names).x
             vals == DictGet(cfs, name)
         IN  (IF vals.t = "list" /\ vals.v # <<>>
              THEN << <<"-", " ">> \o name \o <<":", " ">> \o Join(<<",", " ">>, Texts(vals.v)) >>
              ELSE IF vals.t = "str" /\ Strip(vals.v) # <<>>
                   THEN << <<"-", " ">> \o name \o <<":", " ">> \o Strip(vals.v) >>
                   ELSE <<>>)
             \o CustomfieldBullets(Tail(names), cfs)

\* A faulty variant of customfield_lines: the names are sorted as written.
customfield_linesCaseSensitive(issue, include_customfields) ==
    LET cfs == OrEmptyDict(DictGet(issue, "customfields"))
        names == SortByKey([p \in 1..Len(cfs.v) |->
                              [key |-> cfs.v[p].k, x |-> cfs.v[p].k]], <<>>)
    IN  IF include_customfields /\ cfs.t = "dict" /\ cfs.v # <<>>
        THEN << <<>>, H_CUSTOMFIELDS >> \o CustomfieldBullets(names, cfs)
        ELSE <<>>

customfield_lines(issue, include_customfields) ==
    LET cfs == OrEmptyDict(DictGet(issue, "customfields"))
        names == SortByKey([p \in 1..Len(cfs.v) |->
                              [key |-> LowerStr(cfs.v[p].k), x |-> cfs.v[p].k]], <<>>)
    IN  IF include_customfields /\ cfs.t = "dict" /\ cfs.v # <<>>
        THEN << <<>>, H_CUSTOMFIELDS >> \o CustomfieldBullets(names, cfs)
        ELSE <<>>

\* The block appended for description_text / comments_text.
text_block(header, body) ==
    IF Truthy(body) THEN << <<>>, header, body.v >> ELSE <<>>

build_search_text(issue, include_customfields) ==
    Strip(Join(<<"\n">>,
               scalar_lines(issue)
               \o customfield_lines(issue, include_customfields)
               \o text_block(H_DESCRIPTION, DictGet(issue, "description_text"))
               \o text_block(H_COMMENTS, DictGet(issue, "comments_text"))))

(***************************************************************************)
(* Record builder: one <item> to one issue, or None.                       *)
(***************************************************************************)
Options(include_customfields, include_raw_item_xml) ==
    [include_customfields |-> include_customfields,
     include_raw_item_xml |-> include_raw_item_xml]

\* A faulty variant of item_to_issue_dict: the summary goes through strip_html too.
item_to_issue_dictSanitized(it, source_file, o) ==
    LET key == Strip(find_text(it, "key"))
        summary == Strip(find_text(it, "summary"))
        title == Strip(find_text(it, "title"))
        base == PyDict(<<
            Entry("key", PyStr(key)),
            Entry("type", PyStr(Strip(text_of(find_child(it, "type"))))),
            Entry("summary", PyStr(IF summary # <<>> THEN strip_html(summary) ELSE strip_html(title))),
            Entry("title", PyStr(strip_html(title))),
            Entry("status", PyStr(Strip(text_of(find_child(it, "status"))))),
            Entry("priority", PyStr(Strip(text_of(find_child(it, "priority"))))),
            Entry("assignee", PyStr(Strip(text_of(find_child(it, "assignee"))))),
            Entry("reporter", PyStr(Strip(text_of(find_child(it, "reporter"))))),
            Entry("created", PyStr(Strip(find_text(it, "created")))),
            Entry("updated", PyStr(Strip(find_text(it, "updated")))),
            Entry("project", extract_project(it)),
            Entry("parent", PyStr(extract_parent_key(it))),
            Entry("subtasks", StrList(extract_subtasks(it))),
            Entry("description_text", PyStr(strip_html(find_text(it, "description")))),
            Entry("comments_text", PyStr(extract_comments_text(it))),
            Entry("source_file", PyStr(source_file)) >>)
        issue == IF o.include_customfields
                 THEN DictSet(base, "customfields", extract_customfields(it))
                 ELSE base
    IN  IF ~is_key(key) THEN PyNone
        ELSE DictSet(issue, "text", PyStr(build_search_text(issue, o.include_customfields)))

item_to_issue_dict(it, source_file, o) ==
    LET key == Strip(find_text(it, "key"))
        summary == Strip(find_text(it, "summary"))
        title == Strip(find_text(it, "title"))
        base == PyDict(<<
            Entry("key", PyStr(key)),
            Entry("type", PyStr(Strip(text_of(find_child(it, "type"))))),
            Entry("summary", PyStr(IF summary # <<>> THEN summary ELSE strip_html(title))),
            Entry("title", PyStr(strip_html(title))),
            Entry("status", PyStr(Strip(text_of(find_child(it, "status"))))),
            Entry("priority", PyStr(Strip(text_of(find_child(it, "priority"))))),
            Entry("assignee", PyStr(Strip(text_of(find_child(it, "assignee"))))),
            Entry("reporter", PyStr(Strip(text_of(find_child(it, "reporter"))))),
            Entry("created", PyStr(Strip(find_text(it, "created")))),
            Entry("updated", PyStr(Strip(find_text(it, "updated")))),
            Entry("project", extract_project(it)),
            Entry("parent", PyStr(extract_parent_key(it))),
            Entry("subtasks", StrList(extract_subtasks(it))),
            Entry("description_text", PyStr(strip_html(find_text(it, "description")))),
            Entry("comments_text", PyStr(extract_comments_text(it))),
            Entry("source_file", PyStr(source_file)) >>)
        issue == IF o.include_customfields
                 THEN DictSet(base, "customfields", extract_customfields(it))
                 ELSE base
    IN  IF ~is_key(key) THEN PyNone
        ELSE DictSet(issue, "text", PyStr(build_search_text(issue, o.include_customfields)))

(***************************************************************************)
(* main(): the scan over the input documents and the aggregate.            *)
(***************************************************************************)
\* A document is [wellformed, root]: ET.parse raises ParseError on a document
\* that is not well-formed XML.  The outcome of parse_rss_items is
\* [raised, detail, items]; raised is "" when it returns.
parse_rss_items(doc) ==
    IF ~doc.wellformed
    THEN [raised |-> "ParseError", detail |-> <<>>, items |-> <<>>]
    ELSE IF TagLower(local_name(doc.root.tag)) # <<"rss">>
    THEN [raised |-> "ValueError", detail |-> doc.root.tag, items |-> <<>>]
    ELSE LET kids == doc.root.kids
             chans == {p \in 1..Len(kids) : TagLower(local_name(kids[p].tag)) = <<"channel">>}
         IN  IF chans = {} THEN [raised |-> "", detail |-> <<>>, items |-> <<>>]
             ELSE [raised |-> "", detail |-> <<>>,
                   items |-> SelectSeq(kids[SetMin(chans)].kids,
                                       LAMBDA e : local_name(e.tag) = <<"item">>)]

\* Faulty variants of Offer: replace on a tie too; replace whenever the key is seen.
OfferAtLeast(agg, issue) ==
    LET k == DictGet(issue, "key").v
    IN  IF k \notin DOMAIN agg \/ node_weight(issue) >= node_weight(agg[k])
        THEN [x \in (DOMAIN agg) \cup {k} |-> IF x = k THEN issue ELSE agg[x]]
        ELSE agg
OfferLatest(agg, issue) ==
    LET k == DictGet(issue, "key").v
    IN  [x \in (DOMAIN agg) \cup {k} |-> IF x = k THEN issue ELSE agg[x]]

\* prev = issues_by_key.get(k); replace when prev is None or the new issue weighs more.
Offer(agg, issue) ==
    LET k == DictGet(issue, "key").v
    IN  IF k \notin DOMAIN agg \/ node_weight(issue) > node_weight(agg[k])
        THEN [x \in (DOMAIN agg) \cup {k} |-> IF x = k THEN issue ELSE agg[x]]
        ELSE agg

\* A faulty variant of AfterFailure: the break is missing.
AfterFailureContinue(ff) == "loop"

\* Where the loop goes after a document failed: break under --fail-fast.
AfterFailure(ff) == IF ff THEN "write" ELSE "loop"

\* ordered = [issues_by_key[k] for k in sorted(issues_by_key.keys())]
Ordered(agg) ==
    LET ks == SortedStrs(DOMAIN agg)
    IN  [p \in 1..Len(ks) |-> agg[ks[p]]]

\* The checks before the loop: the input folder is a folder, and it holds
\* at least one document.
Start ==
    /\ pc = "start"
    /\ IF ~folder_ok \/ files = <<>> THEN pc' = "exit" /\ rc' = 2
                                     ELSE pc' = "loop" /\ rc' = rc
    /\ UNCHANGED <<folder_ok, files, fail_fast, opts, idx, pending, issues_by_key, errors,
                   ordered, offered, scanned, started>>
    /\ UNCHANGED <<stripVars, itemVars, weightVars, textVars>>

\* A faulty variant of NextFile: a failing document resets the aggregate.
NextFileResets ==
    /\ pc = "loop"
    /\ idx < Len(files)
    /\ \E f \in {files[idx + 1]} : \E r \in {parse_rss_items(f.doc)} :
           /\ idx' = idx + 1
           /\ scanned' = Append(scanned, idx + 1)
           /\ started' = Append(started, issues_by_key)
           /\ IF r.raised # ""
              THEN /\ errors' = Append(errors, [file |-> f.name, exc |-> r.raised,
                                                detail |-> r.detail])
                   /\ pending' = <<>>
                   /\ issues_by_key' = <<>>
                   /\ pc' = AfterFailure(fail_fast)
              ELSE /\ errors' = errors
                   /\ issues_by_key' = issues_by_key
                   /\ pending' = r.items
                   /\ pc' = IF r.items = <<>> THEN "loop" ELSE "items"
    /\ UNCHANGED <<folder_ok, files, fail_fast, opts, ordered, rc, offered>>
    /\ UNCHANGED <<stripVars, itemVars, weightVars, textVars>>

\* "for f in files": take the next document and parse it.
NextFile ==
    /\ pc = "loop"
    /\ idx < Len(files)
    /\ \E f \in {files[idx + 1]} : \E r \in {parse_rss_items(f.doc)} :
           /\ idx' = idx + 1
           /\ scanned' = Append(scanned, idx + 1)
           /\ started' = Append(started, issues_by_key)
           /\ IF r.raised # ""
              THEN /\ errors' = Append(errors, [file |-> f.name, exc |-> r.raised,
                                                detail |-> r.detail])
                   /\ pending' = <<>>
                   /\ pc' = AfterFailure(fail_fast)
              ELSE /\ errors' = errors
                   /\ pending' = r.items
                   /\ pc' = IF r.items = <<>> THEN "loop" ELSE "items"
    /\ UNCHANGED <<folder_ok, files, fail_fast, opts, issues_by_key, ordered, rc, offered>>
    /\ UNCHANGED <<stripVars, itemVars, weightVars, textVars>>

\* The body of "for item in parse_rss_items(f, t)" for one item.
VisitItem ==
    /\ pc = "items"
    /\ \E issue \in {item_to_issue_dict(Head(pending), files[idx].name, opts)} :
          IF issue.t = "none"
          THEN UNCHANGED <<issues_by_key, offered>>
          ELSE /\ issues_by_key' = Offer(issues_by_key, issue)
               /\ offered' = Append(offered, issue)
    /\ pending' = Tail(pending)
    /\ pc' = IF Tail(pending) = <<>> THEN "loop" ELSE "items"
    /\ UNCHANGED <<folder_ok, files, fail_fast, opts, idx, errors, ordered, rc, scanned, started>>
    /\ UNCHANGED <<stripVars, itemVars, weightVars, textVars>>

\* The for loop runs out of documents.
EndLoop ==
    /\ pc = "loop"
    /\ idx = Len(files)
    /\ pc' = "write"
    /\ UNCHANGED <<driverVars, stripVars, itemVars, weightVars, textVars>>

\* A faulty variant of Finalize: failures return the code of an empty input.
FinalizeSameCode ==
    /\ pc = "write"
    /\ ordered' = Ordered(issues_by_key)
    /\ rc' = IF errors # <<>> THEN 2 ELSE 0
    /\ pc' = "exit"
    /\ UNCHANGED <<folder_ok, files, fail_fast, opts, idx, pending, issues_by_key, errors,
                   offered, scanned, started>>
    /\ UNCHANGED <<stripVars, itemVars, weightVars, textVars>>

\* Sort, write the output, report and return.
Finalize ==
    /\ pc = "write"
    /\ ordered' = Ordered(issues_by_key)
    /\ rc' = IF errors # <<>> THEN 1 ELSE 0
    /\ pc' = "exit"
    /\ UNCHANGED <<folder_ok, files, fail_fast, opts, idx, pending, issues_by_key, errors,
                   offered, scanned, started>>
    /\ UNCHANGED <<stripVars, itemVars, weightVars, textVars>>

Next == Start \/ NextFile \/ VisitItem \/ EndLoop \/ Finalize

(***************************************************************************)
(* Input documents of the driver.                                          *)
(***************************************************************************)
MaxFiles == 3

T_PR1 == <<"P", "R", "-", "1">>
T_PR2 == <<"P", "R", "-", "2">>
T_PR10 == <<"P", "R", "-", "1", "0">>
Ns(name) == <<"{", "u", "}", name>>

\* PR-1 with summary "a"; PR-1 with summary "b" (same weight, key padded with
\* whitespace); a richer PR-1; a poorer PR-1 in a namespaced document.
ItemA == Node("item", <<Leaf("key", T_PR1), Leaf("summary", <<"a">>)>>)
ItemB == Node("item", <<Leaf("summary", <<"b">>), Leaf("key", <<" ">> \o T_PR1 \o <<"\n">>)>>)
ItemRich ==
    Node("item", <<
        Leaf("key", T_PR1),
        Leaf("summary", <<"a", "b">>),
        Leaf("description", <<"<", "b", ">", "o", "l", "d", "<", "/", "b", ">">>),
        Node("customfields", <<
            Node("customfield", <<
                Leaf("customfieldname", <<"O">>),
                Node("customfieldvalues", <<Leaf("customfieldvalue", <<"a">>)>>) >>) >>) >>)
ItemPoor == El(Ns("item"), <<>>, <<>>, <<El(Ns("key"), T_PR1, <<>>, <<>>)>>)
Item2 == Node("item", <<Leaf("key", T_PR2), Leaf("title", <<"<", "b", ">", "a">>)>>)
Item10 == El(Ns("item"), <<>>, <<>>, <<El(Ns("key"), T_PR10, <<>>, <<>>)>>)
\* Items the key gate rejects: a lowercase key, no key at all.
ItemLower == El(Ns("item"), <<>>, <<>>, <<El(Ns("key"), <<"p", "r", "-", "2">>, <<>>, <<>>)>>)
ItemNoKey == Node("item", <<Leaf("summary", <<"a">>)>>)

Doc(wellformed, root) == [wellformed |-> wellformed, root |-> root]
Rss(items) == Doc(TRUE, Node("rss", <<Node("channel", items)>>))

DocOne == Rss(<<Item2, ItemA>>)
DocTwo == Rss(<<ItemB, ItemNoKey, ItemRich, Item2>>)
\* A namespaced document whose root and channel are spelled in another case;
\* <Item> is not an item.
DocNs ==
    Doc(TRUE, El(Ns("RSS"), <<>>, <<>>, <<
        El(Ns("title"), <<"a">>, <<>>, <<>>),
        El(Ns("Channel"), <<>>, <<>>, <<
            ItemPoor, ItemLower, Item10,
            El(Ns("Item"), <<>>, <<>>, <<El(Ns("key"), T_PR2, <<>>, <<>>)>>) >>) >>))
\* Not well-formed XML; a well-formed document whose root is not rss; an rss
\* document without a channel.
DocMalformed == Doc(FALSE, Node("rss", <<>>))
DocFeed == Doc(TRUE, Node("feed", <<Node("channel", <<Item2>>)>>))
DocNoChannel == Doc(TRUE, Node("rss", <<Item2>>))

Catalog == {DocOne, DocTwo, DocNs, DocMalformed, DocFeed, DocNoChannel}

DigitChar == <<"1", "2", "3", "4", "5", "6", "7", "8", "9">>
FileName(i) == <<"f", DigitChar[i], ".", "x", "m", "l">>
FileList(docs) == [i \in 1..Len(docs) |-> [name |-> FileName(i), doc |-> docs[i]]]

(***************************************************************************)
(* Values of the variables a specification does not use.                   *)
(***************************************************************************)
NoItem == Node("item", <<>>)
DriverIdle ==
    /\ folder_ok = TRUE
    /\ files = <<>> /\ fail_fast = FALSE /\ opts = Options(FALSE, FALSE)
    /\ idx = 0 /\ pending = <<>> /\ issues_by_key = <<>> /\ errors = <<>>
    /\ ordered = <<>> /\ rc = -1 /\ offered = <<>> /\ scanned = <<>> /\ started = <<>>
StripIdle == s_in = <<>> /\ s_out = <<>> /\ s_out2 = <<>>
ItemIdle == item = NoItem /\ issue_out = PyNone /\ cf_out = PyNone
WeightIdle == obj = PyNone /\ edit = [kind |-> "none", n |-> 0]
TextIdle == rec = PyDict(<<>>) /\ rec_out = [flag |-> FALSE, lines |-> <<>>, cf_lines |-> <<>>, text |-> <<>>]

(***************************************************************************)
(* Spec: main() over every list of at most MaxFiles catalog documents.     *)
(***************************************************************************)
Init ==
    /\ pc = "start"
    /\ \E n \in 0..MaxFiles : \E docs \in [1..n -> Catalog] : files = FileList(docs)
    /\ folder_ok \in BOOLEAN
    /\ folder_ok \/ files = <<>>
    /\ fail_fast \in BOOLEAN
    /\ \E cf \in BOOLEAN : opts = Options(cf, FALSE)
    /\ idx = 0 /\ pending = <<>> /\ issues_by_key = <<>> /\ errors = <<>>
    /\ ordered = <<>> /\ rc = -1 /\ offered = <<>> /\ scanned = <<>> /\ started = <<>>
    /\ StripIdle /\ ItemIdle /\ WeightIdle /\ TextIdle

Spec == Init /\ [][Next]_vars

(***************************************************************************)
(* Properties of the aggregate (specification Spec).                       *)
(***************************************************************************)
KeyOf(issue) == DictGet(issue, "key").v
SourceOf(issue) == DictGet(issue, "source_file").v
OffersOf(k) == {i \in 1..Len(offered) : KeyOf(offered[i]) = k}
OfferedKeys == {KeyOf(offered[i]) : i \in 1..Len(offered)}

\* C1: every offer of a record with key K inserts it when K is not stored,
\* replaces the stored record only when the new record's node_weight is
\* strictly greater, and otherwise keeps the stored one; no other key of the
\* aggregate changes, and the aggregate changes only on an offer.
C1_OfferContract ==
    [][ /\ Len(offered') = Len(offered) + 1 =>
            LET r == offered'[Len(offered')]
                k == KeyOf(r)
            IN  /\ DOMAIN issues_by_key' = (DOMAIN issues_by_key) \cup {k}
                /\ \A x \in (DOMAIN issues_by_key) \ {k} : issues_by_key'[x] = issues_by_key[x]
                /\ k \notin DOMAIN issues_by_key => issues_by_key'[k] = r
                /\ k \in DOMAIN issues_by_key =>
                      issues_by_key'[k] =
                          IF node_weight(r) > node_weight(issues_by_key[k])
                          THEN r ELSE issues_by_key[k]
        /\ offered' = offered => issues_by_key' = issues_by_key ]_vars

\* A state in which one key kept its first record on a tie against a different
\* record, one key was replaced by a heavier record, and one key kept its
\* record against a lighter one.
C1_Witness ==
    /\ \E i, j \in 1..Len(offered) :
          /\ i < j /\ KeyOf(offered[i]) = KeyOf(offered[j]) /\ offered[i] # offered[j]
          /\ node_weight(offered[i]) = node_weight(offered[j])
          /\ issues_by_key[KeyOf(offered[i])] = offered[i]
    /\ \E i, j \in 1..Len(offered) :
          /\ i < j /\ KeyOf(offered[i]) = KeyOf(offered[j])
          /\ node_weight(offered[j]) > node_weight(offered[i])
          /\ issues_by_key[KeyOf(offered[i])] = offered[j]
    /\ \E i, j \in 1..Len(offered) :
          /\ i < j /\ KeyOf(offered[i]) = KeyOf(offered[j])
          /\ node_weight(offered[j]) < node_weight(offered[i])
          /\ issues_by_key[KeyOf(offered[i])] = offered[i]

\* C2: after any sequence of offers the aggregate holds exactly the keys
\* offered, and for every key the retained record is the earliest offered one
\* among those of maximal node_weight for that key.
C2_RetainsFirstMax ==
    /\ DOMAIN issues_by_key = OfferedKeys
    /\ \A k \in DOMAIN issues_by_key :
          LET best == {i \in OffersOf(k) :
                          \A j \in OffersOf(k) : node_weight(offered[j]) <= node_weight(offered[i])}
          IN  issues_by_key[k] = offered[SetMin(best)]

\* One key offered four times with weights w, w, W, v where v < w < W (the
\* shape [5, 5, 8, 3]) retains the third; another key offered twice with equal
\* weights (the shape [5, 5]) retains the first.
C2_Witness ==
    /\ \E k \in DOMAIN issues_by_key :
          \E a, b, c, d \in OffersOf(k) :
              /\ a < b /\ b < c /\ c < d /\ Cardinality(OffersOf(k)) = 4
              /\ node_weight(offered[a]) = node_weight(offered[b])
              /\ node_weight(offered[b]) < node_weight(offered[c])
              /\ node_weight(offered[d]) < node_weight(offered[a])
              /\ issues_by_key[k] = offered[c]
    /\ \E k \in DOMAIN issues_by_key :
          \E a, b \in OffersOf(k) :
              /\ a < b /\ Cardinality(OffersOf(k)) = 2
              /\ node_weight(offered[a]) = node_weight(offered[b])
              /\ offered[a] # offered[b]
              /\ issues_by_key[k] = offered[a]

\* a < b in ordinal (code point) order, stated on its own.
RECURSIVE OrdinalLess(_, _)
OrdinalLess(a, b) ==
    IF b = <<>> THEN FALSE
    ELSE IF a = <<>> THEN TRUE
    ELSE IF Head(a) = Head(b) THEN OrdinalLess(Tail(a), Tail(b))
    ELSE Ord(Head(a)) < Ord(Head(b))

\* C3: the finalized output holds exactly one record per distinct key offered,
\* the one the aggregate retained, in strictly ascending ordinal key order.
C3_OutputSortedByKey ==
    (pc = "exit" /\ rc # 2) =>
        /\ Len(ordered) = Cardinality(OfferedKeys)
        /\ {KeyOf(ordered[p]) : p \in 1..Len(ordered)} = OfferedKeys
        /\ \A p \in 1..Len(ordered) : ordered[p] = issues_by_key[KeyOf(ordered[p])]
        /\ \A p \in 1..(Len(ordered) - 1) :
              OrdinalLess(KeyOf(ordered[p]), KeyOf(ordered[p + 1]))

\* Keys first offered in the order PR-2, PR-1, PR-10 come out as
\* PR-1, PR-10, PR-2.
C3_Witness ==
    /\ pc = "exit"
    /\ Len(offered) >= 3
    /\ KeyOf(offered[1]) = T_PR2 /\ KeyOf(offered[2]) = T_PR1
    /\ [p \in 1..Len(ordered) |-> KeyOf(ordered[p])] = <<T_PR1, T_PR10, T_PR2>>

\* The documents that fail, and the cause, stated from the document alone.
DocCause(doc) ==
    IF ~doc.wellformed THEN "ParseError"
    ELSE IF TagLower(local_name(doc.root.tag)) # <<"rss">> THEN "ValueError"
    ELSE ""
FailingFiles == {i \in 1..Len(files) : DocCause(files[i].doc) # ""}

\* The failures of the documents scanned, in order.
RECURSIVE FailuresOf(_)
FailuresOf(is) ==
    IF is = <<>> THEN <<>>
    ELSE (IF DocCause(files[Head(is)].doc) # ""
          THEN << <<files[Head(is)].name, DocCause(files[Head(is)].doc)>> >> ELSE <<>>)
         \o FailuresOf(Tail(is))

\* The issues the items of the documents scanned yield, in order.
RECURSIVE IssuesOfItems(_, _)
IssuesOfItems(its, name) ==
    IF its = <<>> THEN <<>>
    ELSE (IF item_to_issue_dict(Head(its), name, opts).t # "none"
          THEN <<item_to_issue_dict(Head(its), name, opts)>> ELSE <<>>)
         \o IssuesOfItems(Tail(its), name)
RECURSIVE IssuesOfFiles(_)
IssuesOfFiles(is) ==
    IF is = <<>> THEN <<>>
    ELSE (IF DocCause(files[Head(is)].doc) # "" THEN <<>>
          ELSE IssuesOfItems(parse_rss_items(files[Head(is)].doc).items, files[Head(is)].name))
         \o IssuesOfFiles(Tail(is))

\* C5: each failing document scanned is in the error list, in order, with its
\* file and cause, and nothing else is; when the run ends, without fail-fast
\* every document was scanned and every item of every non-failing document
\* was handled, and with fail-fast the scan stopped at the first failing
\* document.
C5_FailurePolicy ==
    /\ [p \in 1..Len(errors) |-> <<errors[p].file, errors[p].exc>>] = FailuresOf(scanned)
    /\ (pc = "exit" /\ rc # 2) =>
          /\ scanned = [i \in 1..(IF fail_fast /\ FailingFiles # {}
                                   THEN SetMin(FailingFiles) ELSE Len(files)) |-> i]
          /\ offered = IssuesOfFiles(scanned)

\* Without fail-fast, a malformed document and a non-rss document were both
\* recorded and a later document still contributed a record to the output.
C5_Witness ==
    /\ pc = "exit" /\ ~fail_fast
    /\ \E p, q \in 1..Len(errors) : errors[p].exc = "ParseError" /\ errors[q].exc = "ValueError"
    /\ \E i \in FailingFiles : \E p \in 1..Len(ordered) :
          \E j \in (i + 1)..Len(files) : SourceOf(ordered[p]) = files[j].name


(***************************************************************************)
(* SpecKeys: main() over one document holding a valid item and an item     *)
(* whose <key> text is any string of at most MaxKeyLen characters, or is   *)
(* missing.  The second item is kept in the variable item.                 *)
(***************************************************************************)
KeyAlphabet == {"P", "p", "1", "-", " "}
KeyTexts == UNION {[1..n -> KeyAlphabet] : n \in 0..MaxKeyLen}
KeyItems == {Node("item", <<Leaf("key", k)>>) : k \in KeyTexts} \cup {ItemNoKey}

InitKeys ==
    /\ pc = "start"
    /\ item \in KeyItems
    /\ folder_ok = TRUE
    /\ files = FileList(<<Rss(<<Item2, item>>)>>)
    /\ fail_fast = FALSE /\ opts = Options(FALSE, FALSE)
    /\ idx = 0 /\ pending = <<>> /\ issues_by_key = <<>> /\ errors = <<>>
    /\ ordered = <<>> /\ rc = -1 /\ offered = <<>> /\ scanned = <<>> /\ started = <<>>
    /\ issue_out = PyNone /\ cf_out = PyNone
    /\ StripIdle /\ WeightIdle /\ TextIdle

SpecKeys == InitKeys /\ [][Next]_vars

\* The key pattern: one uppercase letter, one or more uppercase letters or
\* digits, a hyphen, one or more digits.
KeyPattern(s) ==
    \E h \in 1..Len(s) :
        /\ s[h] = "-"
        /\ h >= 3 /\ h < Len(s)
        /\ s[1] \in UpperLetters
        /\ \A p \in 2..(h - 1) : s[p] \in UpperLetters \cup Digits
        /\ \A p \in (h + 1)..Len(s) : s[p] \in Digits

\* The key field of an item: the trimmed text of its first <key> child.
KeyField(it) == find_text(it, "key")

\* C4: item_to_issue_dict returns a record exactly when the item's key field
\* matches the key pattern; once the run has ended, the item was offered to
\* the aggregate exactly when it matches, the error list is empty whatever
\* the key is, and every key stored in the aggregate matches the pattern.
C4_KeyGate ==
    /\ (item_to_issue_dict(item, FileName(1), opts).t # "none") <=> KeyPattern(KeyField(item))
    /\ errors = <<>>
    /\ \A k \in DOMAIN issues_by_key : KeyPattern(k)
    /\ \A i \in 1..Len(offered) : KeyPattern(KeyOf(offered[i]))
    /\ pc = "exit" =>
          /\ Len(offered) = (IF KeyPattern(KeyField(item)) THEN 2 ELSE 1)
          /\ Len(offered) = 2 => offered[2] = item_to_issue_dict(item, FileName(1), opts)
          /\ rc = 0

\* The run ended on an item whose key is present but violates the pattern
\* (a single letter before the hyphen): only the valid item was offered.
C4_Witness ==
    /\ pc = "exit"
    /\ KeyField(item) = <<"P", "-", "1">>
    /\ Len(offered) = 1
    /\ DOMAIN issues_by_key = {T_PR2}
    /\ errors = <<>>


(***************************************************************************)
(* SpecStrip: strip_html applied once and twice to every string of at most *)
(* MaxTextLen characters over TextAlphabet.                                *)
(***************************************************************************)
TextAlphabet == {" ", "&", ";", "<", ">", "a", "b", "l", "t"}

InitStrip ==
    /\ pc = "text"
    /\ s_in = <<>> /\ s_out = <<>> /\ s_out2 = <<>>
    /\ DriverIdle /\ ItemIdle /\ WeightIdle /\ TextIdle

\* The input grows by one character.
TypeChar ==
    /\ pc = "text"
    /\ Len(s_in) < MaxTextLen
    /\ \E c \in TextAlphabet : s_in' = Append(s_in, c)
    /\ UNCHANGED <<pc, s_out, s_out2, driverVars, itemVars, weightVars, textVars>>

\* y = strip_html(x); z = strip_html(y)
Sanitize ==
    /\ pc = "text"
    /\ pc' = "stripped"
    /\ s_out' = strip_html(s_in)
    /\ s_out2' = strip_html(strip_html(s_in))
    /\ UNCHANGED <<s_in, driverVars, itemVars, weightVars, textVars>>

NextStrip == TypeChar \/ Sanitize

SpecStrip == InitStrip /\ [][NextStrip]_vars

\* C6: strip_html is idempotent: for every input x, sanitizing the sanitized
\* text again gives the same text, strip_html(strip_html(x)) = strip_html(x).
C6_Idempotent == pc = "stripped" => s_out2 = s_out

(***************************************************************************)
(* SpecItems: item_to_issue_dict on every item of at most MaxKids children *)
(* taken from ItemKids, under either value of include_customfields.        *)
(***************************************************************************)
T_PROJ1 == <<"P", "R", "O", "J", "-", "1">>
T_HelloMarkup ==
    <<"H", "e", "l", "l", "o", " ", "<", "b", ">", "W", "o", "r", "l", "d", "<", "/", "b", ">">>
T_HelloWorld == <<"H", "e", "l", "l", "o", " ", "W", "o", "r", "l", "d">>

ItemKids ==
    { Leaf("key", T_PROJ1),
      Leaf("key", <<"p", "r", "o", "j", "-", "1">>),
      Leaf("summary", T_HelloMarkup),
      Leaf("summary", <<" ">>),
      Leaf("title", T_HelloMarkup),
      Leaf("description", T_HelloMarkup),
      Leaf("priority", <<"a">>) }

InitItems ==
    /\ pc = "build"
    /\ item = NoItem /\ issue_out = PyNone /\ cf_out = PyNone
    /\ folder_ok = TRUE /\ files = <<>> /\ fail_fast = FALSE
    /\ \E cf \in BOOLEAN : opts = Options(cf, FALSE)
    /\ idx = 0 /\ pending = <<>> /\ issues_by_key = <<>> /\ errors = <<>>
    /\ ordered = <<>> /\ rc = -1 /\ offered = <<>> /\ scanned = <<>> /\ started = <<>>
    /\ StripIdle /\ WeightIdle /\ TextIdle

\* The item gets one more child element.
AddChild ==
    /\ pc = "build"
    /\ Len(item.kids) < MaxKids
    /\ \E kid \in ItemKids : item' = [item EXCEPT !.kids = Append(item.kids, kid)]
    /\ UNCHANGED <<pc, issue_out, cf_out, driverVars, stripVars, weightVars, textVars>>

\* issue = item_to_issue_dict(item, f.name, opts)
BuildIssue ==
    /\ pc = "build"
    /\ pc' = "built"
    /\ issue_out' = item_to_issue_dict(item, FileName(1), opts)
    /\ cf_out' = extract_customfields(item)
    /\ UNCHANGED <<item, driverVars, stripVars, weightVars, textVars>>

NextItems == AddChild \/ BuildIssue

SpecItems == InitItems /\ [][NextItems]_vars

\* The minimal item: a key PROJ-1 and a summary 'Hello <b>World</b>', in
\* either order, and no other field.
MinimalItem ==
    /\ Len(item.kids) = 2
    /\ {item.kids[1], item.kids[2]} = {Leaf("key", T_PROJ1), Leaf("summary", T_HelloMarkup)}

\* C7 as stated: the minimal item gives a record whose summary is
\* 'Hello World' and whose text is the two lines 'KEY: PROJ-1' and
\* 'SUMMARY: Hello World'.
C7_SummarySanitized ==
    (pc = "built" /\ MinimalItem) =>
        /\ issue_out.t = "dict"
        /\ DictGet(issue_out, "summary") = PyStr(T_HelloWorld)
        /\ DictGet(issue_out, "text") =
              PyStr(L_KEY \o <<":", " ">> \o T_PROJ1 \o <<"\n">>
                    \o L_SUMMARY \o <<":", " ">> \o T_HelloWorld)

\* C7 as amended: the minimal item gives a record whose summary is the
\* summary text as written, 'Hello <b>World</b>', and whose text is the two
\* lines 'KEY: PROJ-1' and 'SUMMARY: Hello <b>World</b>'.
C7_SummaryVerbatim ==
    (pc = "built" /\ MinimalItem) =>
        /\ issue_out.t = "dict"
        /\ DictGet(issue_out, "key") = PyStr(T_PROJ1)
        /\ DictGet(issue_out, "summary") = PyStr(T_HelloMarkup)
        /\ DictGet(issue_out, "text") =
              PyStr(L_KEY \o <<":", " ">> \o T_PROJ1 \o <<"\n">>
                    \o L_SUMMARY \o <<":", " ">> \o T_HelloMarkup)

\* The record of the minimal item has been built.
C7_Witness == pc = "built" /\ MinimalItem /\ issue_out.t = "dict"


(***************************************************************************)
(* SpecCF: extract_customfields on an item whose <customfields> holds at   *)
(* most MaxFields children taken from FieldKids.                           *)
(***************************************************************************)
CfValue(text) == Leaf("customfieldvalue", text)
CfValues(texts) == Node("customfieldvalues", [p \in 1..Len(texts) |-> CfValue(texts[p])])
Customfield(name, texts) ==
    Node("customfield", <<Leaf("customfieldname", name), CfValues(texts)>>)

FieldKids ==
    { \* the values a, "a ", " b", a under the name a
      Customfield(<<"a">>, << <<"a">>, <<"a", " ">>, <<" ", "b">>, <<"a">> >>),
      \* another customfield of the same name
      Customfield(<<"a">>, << <<"b">>, <<"d">> >>),
      \* an empty name; no name at all
      Customfield(<<>>, << <<"a">> >>),
      Node("customfield", <<CfValues(<< <<"a">> >>)>>),
      \* a padded name, values that differ in inner whitespace, a blank value
      Customfield(<<" ", "O", "\n">>, << <<"a", " ", " ", "b">>, <<"a", "\n", "b">>, <<" ">> >>),
      \* a value one level deeper, under a namespaced tag
      El(Ns("customfield"), <<>>, <<>>, <<
          El(Ns("customfieldvalues"), <<>>, <<>>, <<
              El(Ns("customfieldvalue"), <<" ">>, <<>>, <<Leaf("p", <<"d">>)>>),
              El(Ns("customfieldvalue"), <<"a">>, <<>>, <<>>) >>),
          El(Ns("customfieldname"), <<"R">>, <<>>, <<>>) >>),
      \* not a customfield
      Node("other", <<Leaf("customfieldname", <<"b">>), CfValues(<< <<"a">> >>)>>) }

CfItem(cfs) == Node("item", <<Leaf("key", T_PR1), Node("customfields", cfs)>>)

InitCF ==
    /\ pc = "fields"
    /\ item = CfItem(<<>>) /\ issue_out = PyNone /\ cf_out = PyNone
    /\ DriverIdle /\ StripIdle /\ WeightIdle /\ TextIdle

\* <customfields> gets one more child.
AddCustomfield ==
    /\ pc = "fields"
    /\ Len(item.kids[2].kids) < MaxFields
    /\ \E cf \in FieldKids : item' = CfItem(Append(item.kids[2].kids, cf))
    /\ UNCHANGED <<pc, issue_out, cf_out, driverVars, stripVars, weightVars, textVars>>

\* cf_out = extract_customfields(item)
ExtractFields ==
    /\ pc = "fields"
    /\ pc' = "extracted"
    /\ cf_out' = extract_customfields(item)
    /\ UNCHANGED <<item, issue_out, driverVars, stripVars, weightVars, textVars>>

NextCF == AddCustomfield \/ ExtractFields

SpecCF == InitCF /\ [][NextCF]_vars

\* The customfields of the item, the name of one and the values it lists.
CustomfieldsOf(it) ==
    SelectSeq(it.kids[2].kids, LAMBDA e : local_name(e.tag) = <<"customfield">>)
FieldName(cf) == find_text(cf, "customfieldname")
FieldValues(cf) == ScanCustomfield(cf.kids, <<>>, <<>>).values

\* s with every run of whitespace turned into one space, trimmed.
Normalized(s) == Strip(CollapseSpaces(s))

\* The distinct non-empty normalized values, each at its first occurrence.
FirstSeen(values) ==
    LET norm == [p \in 1..Len(values) |-> Normalized(values[p])]
        keep == {p \in 1..Len(norm) :
                    norm[p] # <<>> /\ \A q \in 1..(p - 1) : norm[q] # norm[p]}
        Pick[n \in 0..Len(norm)] ==
            IF n = 0 THEN <<>>
            ELSE IF n \in keep THEN Append(Pick[n - 1], norm[n]) ELSE Pick[n - 1]
    IN  Pick[Len(norm)]

\* C8: for every customfield with a non-empty name the result holds, under
\* that name, the list of its values after whitespace normalization, without
\* repeats or empty values, in first-seen order; a customfield with an empty
\* name contributes no entry (every entry is that of a named customfield).
C8_FieldValues ==
    pc = "extracted" =>
        LET cfs == CustomfieldsOf(item)
        IN  /\ \A p \in 1..Len(cfs) :
                  FieldName(cfs[p]) # <<>> =>
                      DictGet(cf_out, FieldName(cfs[p])) = StrList(FirstSeen(FieldValues(cfs[p])))
            /\ \A e \in 1..Len(cf_out.v) :
                  /\ cf_out.v[e].k # <<>>
                  /\ \E p \in 1..Len(cfs) : FieldName(cfs[p]) = cf_out.v[e].k


(***************************************************************************)
(* SpecWeight: node_weight of a value that grows by at most MaxEdits       *)
(* content-adding edits, made anywhere inside it.                          *)
(***************************************************************************)
\* Non-empty contents an edit adds: a text, a sequence, a mapping, a scalar
\* that is not text.
NewValues ==
    { PyStr(<<"a">>), PyList(<<PyStr(<<"a", "b">>)>>),
      PyDict(<<Entry("id", PyStr(<<"1">>))>>), PyNone }
NewKeys == <<"extra1", "extra2", "extra3", "extra4", "extra5", "extra6">>
EditChars == {"a", " "}

\* The values one edit of the given kind, at any depth, turns x into.
RECURSIVE Edits(_, _, _)
Edits(x, kind, n) ==
    LET here ==
            IF kind = "text" /\ x.t = "str"
            THEN {PyStr(Append(x.v, c)) : c \in EditChars}
            ELSE IF kind = "entry" /\ x.t = "dict"
            THEN {PyDict(Append(x.v, Entry(NewKeys[n + 1], e))) : e \in NewValues}
            ELSE IF kind = "element" /\ x.t = "list"
            THEN {PyList(Append(x.v, e)) : e \in NewValues}
            ELSE {}
        inside ==
            IF x.t = "list"
            THEN UNION {{PyList([x.v EXCEPT ![p] = y]) : y \in Edits(x.v[p], kind, n)}
                        : p \in 1..Len(x.v)}
            ELSE IF x.t = "dict"
            THEN UNION {{PyDict([x.v EXCEPT ![p] = Entry(x.v[p].k, y)])
                            : y \in Edits(x.v[p].v, kind, n)} : p \in 1..Len(x.v)}
            ELSE {}
    IN  here \cup inside

\* A record as item_to_issue_dict builds it, and a small nested value.
WeightSeeds ==
    { item_to_issue_dict(ItemRich, FileName(1), Options(TRUE, FALSE)),
      PyDict(<<Entry("subtasks", PyList(<<PyStr(<<>>), PyList(<<>>)>>)),
               Entry("project", PyDict(<<>>))>>) }

InitWeight ==
    /\ pc = "weigh"
    /\ obj \in WeightSeeds
    /\ edit = [kind |-> "none", n |-> 0]
    /\ DriverIdle /\ StripIdle /\ ItemIdle /\ TextIdle

EditStep(kind) ==
    /\ pc = "weigh"
    /\ edit.n < MaxEdits
    /\ obj' \in Edits(obj, kind, edit.n)
    /\ edit' = [kind |-> kind, n |-> edit.n + 1]
    /\ UNCHANGED <<pc, driverVars, stripVars, itemVars, textVars>>

\* A mapping somewhere in obj gets a new entry.
AddEntry == EditStep("entry")
\* A sequence somewhere in obj gets a new element.
AppendElement == EditStep("element")
\* A text somewhere in obj gets one character longer.
LengthenText == EditStep("text")

NextWeight == AddEntry \/ AppendElement \/ LengthenText

SpecWeight == InitWeight /\ [][NextWeight]_vars

\* The weight rule as stated: a mapping weighs the sum of its values plus 10
\* per entry, a sequence the sum of its elements plus 5 per element, a text
\* its length, any other scalar 1.
RECURSIVE RuleWeight(_)
RuleWeight(x) ==
    LET Sum[n \in 0..Len(x.v)] ==
            IF n = 0 THEN 0
            ELSE Sum[n - 1] + RuleWeight(IF x.t = "dict" THEN x.v[n].v ELSE x.v[n])
    IN  CASE x.t = "dict" -> Sum[Len(x.v)] + 10 * Len(x.v)
          [] x.t = "list" -> Sum[Len(x.v)] + 5 * Len(x.v)
          [] x.t = "str" -> Len(x.v)
          [] OTHER -> 1

\* C9: adding a non-empty entry to a mapping or element to a sequence, or
\* lengthening a text, anywhere in a record never decreases node_weight of the
\* record, and node_weight follows the stated rule.
C9_WeightMonotonic ==
    [][ obj' # obj =>
            /\ node_weight(obj') >= node_weight(obj)
            /\ node_weight(obj') = RuleWeight(obj') ]_vars

\* A record that has taken two edits, the last one a new element of a
\* sequence nested inside it.
C9_Witness ==
    /\ pc = "weigh"
    /\ edit.n >= 2 /\ edit.kind = "element"
    /\ obj.t = "dict" /\ Len(obj.v) > 2

(***************************************************************************)
(* SpecText: build_search_text on a full record in which at most           *)
(* MaxFieldEdits fields were replaced, under either value of the flag.     *)
(***************************************************************************)
BaseRecord ==
    PyDict(<<
        Entry("key", PyStr(T_PR1)),
        Entry("type", PyStr(<<"a">>)),
        Entry("summary", PyStr(<<"a", " ", "b">>)),
        Entry("title", PyStr(<<"a">>)),
        Entry("status", PyStr(<<"o">>)),
        Entry("priority", PyStr(<<"l", "o">>)),
        Entry("assignee", PyStr(<<"b">>)),
        Entry("reporter", PyStr(<<"r">>)),
        Entry("created", PyStr(<<"1">>)),
        Entry("updated", PyStr(<<"2">>)),
        Entry("project", PyDict(<<Entry("id", PyStr(<<"1">>)), Entry("key", PyStr(<<"P", "R">>)),
                                  Entry("name", PyStr(<<"a">>))>>)),
        Entry("parent", PyStr(T_PR2)),
        Entry("subtasks", StrList(<<T_PR10, T_PR2>>)),
        Entry("description_text", PyStr(<<"d">>)),
        Entry("comments_text", PyStr(<<>>)),
        Entry("source_file", PyStr(FileName(1))),
        Entry("customfields", PyDict(<<Entry(<<"O">>, StrList(<< <<"a">> >>))>>)) >>)

TextFields ==
    {"key", "type", "summary", "status", "priority", "assignee", "reporter",
     "created", "updated", "parent"}
TextValues == {PyNone, PyStr(<<>>), PyStr(<<" ", "\n">>), PyStr(<<" ", "e">>)}
ProjectValues ==
    { PyNone, PyDict(<<>>),
      PyDict(<<Entry("key", PyStr(<<" ">>)), Entry("name", PyStr(<<"a">>))>>),
      PyDict(<<Entry("key", PyStr(<<"P", "R">>)), Entry("name", PyStr(<<>>))>>) }
SubtaskValues == {PyNone, PyList(<<>>), StrList(<< <<" ">> >>), StrList(<< T_PR2 >>)}

\* No mapping; an empty one; names whose case-insensitive order differs from
\* their ordinal order; two names equal but for case; a name without values;
\* only such a name; values that are a str.
CustomfieldValues ==
    { PyNone, PyDict(<<>>),
      PyDict(<<Entry(<<"b">>, StrList(<< <<"a">>, <<"d">> >>)),
               Entry(<<"O">>, StrList(<< <<"e">> >>)),
               Entry(<<"a">>, StrList(<< <<"b">> >>))>>),
      PyDict(<<Entry(<<"o">>, StrList(<< <<"a">> >>)), Entry(<<"O">>, StrList(<< <<"b">> >>))>>),
      PyDict(<<Entry(<<"b">>, StrList(<< <<"a">> >>)), Entry(<<"a">>, PyList(<<>>))>>),
      PyDict(<<Entry(<<"a">>, PyList(<<>>))>>),
      PyDict(<<Entry(<<"b">>, PyStr(<<" ", "e", " ">>)), Entry(<<"a", "b">>, PyStr(<<" ">>))>>) }

FieldChoices(f) ==
    IF f \in TextFields THEN TextValues
    ELSE IF f = "project" THEN ProjectValues
    ELSE IF f = "subtasks" THEN SubtaskValues
    ELSE IF f = "customfields" THEN CustomfieldValues
    ELSE {PyStr(<<>>)}

EditedFields(r) == {p \in 1..Len(r.v) : r.v[p] # BaseRecord.v[p]}

InitText ==
    /\ pc = "edit"
    /\ rec = BaseRecord
    /\ rec_out = [flag |-> FALSE, lines |-> <<>>, cf_lines |-> <<>>, text |-> <<>>]
    /\ DriverIdle /\ StripIdle /\ ItemIdle /\ WeightIdle

\* issue[f] = v
SetField ==
    /\ pc = "edit"
    /\ \E f \in TextFields \cup {"project", "subtasks", "description_text", "customfields"} :
          \E v \in FieldChoices(f) :
              /\ rec' = DictSet(rec, f, v)
              /\ Cardinality(EditedFields(rec')) <= MaxFieldEdits
              /\ rec' # rec
    /\ UNCHANGED <<pc, rec_out, driverVars, stripVars, itemVars, weightVars>>

\* text = build_search_text(issue, flag), with the scalar lines it starts with
\* and the lines of its custom-field section.
Render ==
    /\ pc = "edit"
    /\ pc' = "rendered"
    /\ \E flag \in BOOLEAN :
          rec_out' = [flag |-> flag, lines |-> scalar_lines(rec),
                      cf_lines |-> customfield_lines(rec, flag),
                      text |-> build_search_text(rec, flag)]
    /\ UNCHANGED <<rec, driverVars, stripVars, itemVars, weightVars>>

NextText == SetField \/ Render

SpecText == InitText /\ [][NextText]_vars

\* The scalar fields in their fixed order, each with its label and the value
\* the record gives it.
ProjectField(r, name) ==
    IF DictGet(r, "project").t = "dict" THEN DictGet(DictGet(r, "project"), name) ELSE PyNone
SubtasksField(r) ==
    IF DictGet(r, "subtasks").t = "list" /\ DictGet(r, "subtasks").v # <<>>
    THEN PyStr(Join(<<",", " ">>, Texts(DictGet(r, "subtasks").v)))
    ELSE PyNone
ScalarFields(r) ==
    << [label |-> L_KEY, value |-> DictGet(r, "key")],
       [label |-> L_TYPE, value |-> DictGet(r, "type")],
       [label |-> L_SUMMARY, value |-> DictGet(r, "summary")],
       [label |-> L_STATUS, value |-> DictGet(r, "status")],
       [label |-> L_PRIORITY, value |-> DictGet(r, "priority")],
       [label |-> L_ASSIGNEE, value |-> DictGet(r, "assignee")],
       [label |-> L_REPORTER, value |-> DictGet(r, "reporter")],
       [label |-> L_CREATED, value |-> DictGet(r, "created")],
       [label |-> L_UPDATED, value |-> DictGet(r, "updated")],
       [label |-> L_PROJECT, value |-> ProjectField(r, "key")],
       [label |-> L_PROJECT_NAME, value |-> ProjectField(r, "name")],
       [label |-> L_PARENT, value |-> DictGet(r, "parent")],
       [label |-> L_SUBTASKS, value |-> SubtasksField(r)] >>

\* null, empty or whitespace-only
Blank(v) == v.t = "none" \/ (v.t = "str" /\ \A p \in 1..Len(v.v) : IsSpace(v.v[p]))

\* line is "LABEL: ..." for the given label
HasLabel(line, label) ==
    /\ Len(line) >= Len(label) + 2
    /\ SubSeq(line, 1, Len(label) + 2) = label \o <<":", " ">>

IsPrefix(a, b) == Len(a) <= Len(b) /\ SubSeq(b, 1, Len(a)) = a

\* C10: under either value of the flag, no 'LABEL: value' line is emitted for
\* a scalar field whose value is null, empty or whitespace-only; every line
\* emitted for the scalar fields carries one of the labels, the labels follow
\* the fixed field order, and the rendered text starts with these lines.
C10_BlankFieldsOmitted ==
    pc = "rendered" =>
        LET fields == ScalarFields(rec)
            lines == rec_out.lines
            Rank(line) == CHOOSE i \in 1..Len(fields) : HasLabel(line, fields[i].label)
        IN  /\ \A i \in 1..Len(fields) :
                  Blank(fields[i].value) =>
                      \A p \in 1..Len(lines) : ~HasLabel(lines[p], fields[i].label)
            /\ \A p \in 1..Len(lines) :
                  \E i \in 1..Len(fields) : HasLabel(lines[p], fields[i].label)
            /\ \A p \in 1..(Len(lines) - 1) : Rank(lines[p]) < Rank(lines[p + 1])
            /\ IsPrefix(Strip(Join(<<"\n">>, lines)), rec_out.text)

\* A record whose priority is whitespace-only and nothing else blank was
\* rendered with the flag set: the STATUS and ASSIGNEE lines are adjacent and
\* twelve lines are left.
C10_Witness ==
    /\ pc = "rendered"
    /\ DictGet(rec, "priority") = PyStr(<<" ", "\n">>)
    /\ \E p \in 1..(Len(rec_out.lines) - 1) :
          /\ HasLabel(rec_out.lines[p], L_STATUS)
          /\ HasLabel(rec_out.lines[p + 1], L_ASSIGNEE)
    /\ Len(rec_out.lines) = 12
    /\ rec_out.flag


(***************************************************************************)
(* Completion code of main() (specification Spec).                         *)
(***************************************************************************)
\* C11: when the run has ended, the code for a run without input documents
\* is 2; a run in which at least one document failed and at least one record
\* was produced ends with a code that is neither 0 nor that code; and the
\* code is 0 only when there was at least one input document and none of the
\* documents fails.
C11_CompletionCode ==
    pc = "exit" =>
        /\ rc \in {0, 1, 2}
        /\ (~folder_ok \/ files = <<>>) => rc = 2
        /\ (errors # <<>> /\ ordered # <<>>) => (rc # 0 /\ rc # 2)
        /\ rc = 0 => (folder_ok /\ Len(files) >= 1 /\ FailingFiles = {} /\ errors = <<>>)

\* A run over a failing document and a good one has ended: one failure is
\* listed, a record was written, the code is 1.
C11_Witness ==
    /\ pc = "exit"
    /\ errors # <<>> /\ ordered # <<>>
    /\ rc = 1


(***************************************************************************)
(* The custom-field section of the rendered text (specification SpecText). *)
(***************************************************************************)
\* The lines of a text.
RECURSIVE SplitLines(_)
SplitLines(s) ==
    IF Find(s, "\n", 1) = 0 THEN <<s>>
    ELSE <<SubSeq(s, 1, Find(s, "\n", 1) - 1)>>
         \o SplitLines(SubSeq(s, Find(s, "\n", 1) + 1, Len(s)))

\* An attribute has at least one value: a non-empty list, or a non-blank str.
HasValues(v) == (v.t = "list" /\ v.v # <<>>) \/ (v.t = "str" /\ ~Blank(v))

\* line is the bullet "- name: ..." of the given name
IsBulletOf(line, name) ==
    IsPrefix(<<"-", " ">> \o name \o <<":", " ">>, line)

\* The bullet of one entry of the mapping: the name and its values, joined.
BulletOf(e) ==
    <<"-", " ">> \o e.k \o <<":", " ">>
    \o (IF e.v.t = "list" THEN Join(<<",", " ">>, Texts(e.v.v)) ELSE Strip(e.v.v))

\* The section for the entries in `which`: a blank line, the header, one
\* bullet per entry, in case-insensitive name order, and the text holds it
\* right after the scalar lines.  Without a section the text has no header.
SectionHolds(which) ==
    LET cfs == DictGet(rec, "customfields")
        sec == rec_out.cf_lines
        bullets == SubSeq(sec, 3, Len(sec))
        NameAt(p) == cfs.v[CHOOSE e \in which : IsBulletOf(bullets[p], cfs.v[e].k)].k
    IN  IF rec_out.flag /\ cfs.t = "dict" /\ cfs.v # <<>>
        THEN /\ Len(sec) >= 2 /\ sec[1] = <<>> /\ sec[2] = H_CUSTOMFIELDS
             /\ Len(bullets) = Cardinality(which)
             /\ \A e \in which : \E p \in 1..Len(bullets) : bullets[p] = BulletOf(cfs.v[e])
             /\ \A p \in 1..Len(bullets) : \E e \in which : IsBulletOf(bullets[p], cfs.v[e].k)
             /\ \A p \in 1..(Len(bullets) - 1) :
                   ~OrdinalLess(LowerStr(NameAt(p + 1)), LowerStr(NameAt(p)))
             /\ IsPrefix(Strip(Join(<<"\n">>, rec_out.lines \o sec)), rec_out.text)
        ELSE /\ sec = <<>>
             /\ \A p \in 1..Len(SplitLines(rec_out.text)) :
                   SplitLines(rec_out.text)[p] # H_CUSTOMFIELDS

\* C12 as stated: with inclusion enabled and a non-empty customfields
\* mapping, the text has a blank line, the CUSTOMFIELDS: header and exactly
\* one bulleted line per attribute name of the mapping, in case-insensitive
\* name order; with inclusion disabled there is no CUSTOMFIELDS section.
C12_OneBulletPerName ==
    pc = "rendered" =>
        SectionHolds(1..Len(DictGet(rec, "customfields").v))

\* C12 as amended: the bulleted lines are exactly one per attribute name that
\* has at least one value; a name whose value list is empty (or whose str
\* value is blank) gets no line, and the header is emitted all the same.
C12_OneBulletPerValuedName ==
    pc = "rendered" =>
        SectionHolds({e \in 1..Len(DictGet(rec, "customfields").v) :
                         HasValues(DictGet(rec, "customfields").v[e].v)})

\* A record with the names b, O, a was rendered with inclusion enabled: the
\* section lists a, b, O.
C12_Witness ==
    /\ pc = "rendered" /\ rec_out.flag
    /\ Len(DictGet(rec, "customfields").v) = 3
    /\ Len(rec_out.cf_lines) = 5
    /\ IsBulletOf(rec_out.cf_lines[3], <<"a">>)
    /\ IsBulletOf(rec_out.cf_lines[4], <<"b">>)
    /\ IsBulletOf(rec_out.cf_lines[5], <<"O">>)


(***************************************************************************)
(* A failing document and the aggregate (specification Spec).              *)
(***************************************************************************)
\* Once the failure of the current document is recorded, the aggregate is
\* the one the document was started with.
FailureKeepsAggregate ==
    (idx >= 1 /\ DocCause(files[idx].doc) # "") =>
        /\ errors # <<>> /\ errors[Len(errors)].file = files[idx].name
        /\ pending = <<>>
        /\ issues_by_key = started[idx]

\* The documents that were started and failed.
FailedSoFar == {i \in 1..Len(started) : DocCause(files[i].doc) # ""}

\* C13 as stated: a document whose parsing fails leaves the aggregate as it
\* was when the document was started, and every record retained from earlier
\* documents is in the finalized output.
C13_RetainedRecordsWritten ==
    /\ FailureKeepsAggregate
    /\ (pc = "exit" /\ rc # 2) =>
          \A i \in FailedSoFar : \A k \in DOMAIN started[i] :
              \E p \in 1..Len(ordered) : ordered[p] = started[i][k]

\* C13 as amended: a document whose parsing fails leaves the aggregate as it
\* was when the document was started, and every key retained from earlier
\* documents has its record in the finalized output: the retained record
\* itself, unless a later document offered a strictly heavier record of the
\* same key, which is then the one written.
C13_RetainedKeysWritten ==
    /\ FailureKeepsAggregate
    /\ (pc = "exit" /\ rc # 2) =>
          \A i \in FailedSoFar : \A k \in DOMAIN started[i] :
              \E p \in 1..Len(ordered) :
                  /\ KeyOf(ordered[p]) = k
                  /\ \/ ordered[p] = started[i][k]
                     \/ /\ node_weight(ordered[p]) > node_weight(started[i][k])
                        /\ \E j \in 1..Len(offered) :
                              /\ offered[j] = ordered[p]
                              /\ \E m \in (i + 1)..Len(files) :
                                    SourceOf(offered[j]) = files[m].name

\* A run without fail-fast has ended: a document failed after records were
\* retained, a later document was read, and a record retained before the
\* failure is in the output.
C13_Witness ==
    /\ pc = "exit" /\ ~fail_fast
    /\ \E i \in FailedSoFar :
          /\ i < Len(files)
          /\ DocCause(files[i + 1].doc) = ""
          /\ \E k \in DOMAIN started[i] :
                \E p \in 1..Len(ordered) : ordered[p] = started[i][k]

=============================================================================
